---- MODULE Spec2Model ----
(***************************************************************************)
(* Model of src/main.py: one run of the script that loads its JSON        *)
(* configuration, fetches the APOD metadata and image over HTTP, stores   *)
(* both under data/, sets the desktop wallpaper and its display style,    *)
(* and falls back to a configured default wallpaper on failure.           *)
(*                                                                         *)
(* The environment is the content of the files before the run and the     *)
(* outcome of the two HTTP requests.  File-system writes and the Windows  *)
(* calls are taken to succeed (the script never checks their results).    *)
(* A Python dict is an insertion-ordered sequence of <<key, value>>       *)
(* pairs; JSON text is a record carrying its indentation and its pairs.   *)
(***************************************************************************)
EXTENDS Integers, Sequences, FiniteSets, TLC

\* ---------------------------------------------------------------- bounds
\* Largest number of the five expected keys an APOD document may lack.
MaxMissing == 1
\* Largest number of bytes in a downloaded image.
MaxImageLen == 1

\* ------------------------------------------------------------- constants
APOD_URL == "https://api.nasa.gov/planetary/apod"
config_path == "./config/config.json"
apod_json_path == "data/apod.json"
apod_image_path_const == "data/apod.jpg"
Cwd == "C:/apod"

\* --------------------------------------------------------- dicts and JSON
Keys(doc) == {doc[i][1] : i \in 1..Len(doc)}

\* d[k] of a Python dict; the caller checks HasKey first (KeyError otherwise).
Lookup(doc, k) == doc[CHOOSE i \in 1..Len(doc) : doc[i][1] = k][2]

HasKey(doc, k) == k \in Keys(doc)

\* Content of a file or of an HTTP body.
Absent == [kind |-> "absent", indent |-> 0, doc |-> <<>>, bytes |-> <<>>]
Garbage == [kind |-> "garbage", indent |-> 0, doc |-> <<>>, bytes |-> <<>>]
JsonText(ind, doc) == [kind |-> "json", indent |-> ind, doc |-> doc, bytes |-> <<>>]
Bytes(b) == [kind |-> "bytes", indent |-> 0, doc |-> <<>>, bytes |-> b]

\* json.dump(obj, f, indent=4): the pretty-printed text of the dict.
JsonDump(doc) == JsonText(4, doc)

\* json.load / response.json(): TRUE when the text decodes.
Decodes(text) == text.kind = "json"

\* The dict a decodable text decodes to (indentation is not part of it).
JsonLoad(text) == text.doc

\* ------------------------------------------------------------ exceptions
NoExc == [cls |-> "None", code |-> 0]
Raise(cls) == [cls |-> cls, code |-> 1]
SystemExit(code) == [cls |-> "SystemExit", code |-> code]

\* Classes derived from Exception; SystemExit derives from BaseException only.
ExceptionSubclasses ==
    {"RequestException", "JSONDecodeError", "KeyError", "NameError", "FileNotFoundError"}

\* Python's `a or b` on two class objects: a class is truthy, so the value is a.
PyOr(a, b) == a

\* ----------------------------------------------------------------- paths
AbsolutePaths == {"C:/Users/me/default.jpg", "C:/Windows/Web/img0.jpg"}

\* os.path.abspath: an absolute path is kept, a relative one is joined to cwd.
AbsPath(p) == IF p \in AbsolutePaths THEN [base |-> "", path |-> p]
              ELSE [base |-> Cwd, path |-> p]

\* ----------------------------------------------------------- environment
Styles == {"fill", "fit", "stretch", "tile", "center", "span"}
OtherStyles == {"", "mosaic"}

ConfigTemplate == << <<"api_key", "">>, <<"default_wallpaper", "">>, <<"style", "">> >>

ConfigWith(st) ==
    << <<"api_key", "DEMO_KEY">>, <<"default_wallpaper", "C:/Users/me/default.jpg">>,
       <<"style", st>> >>

\* Configuration documents an operator may have left on disk.
ConfigDocs ==
    {ConfigWith(st) : st \in Styles \cup OtherStyles}
    \cup {ConfigTemplate}
    \cup {<< <<"api_key", "DEMO_KEY">>, <<"style", "fill">> >>,
          << <<"api_key", "DEMO_KEY">>, <<"default_wallpaper", "C:/Users/me/default.jpg">> >>}

ConfigFiles == {Absent, Garbage} \cup {JsonDump(d) : d \in ConfigDocs}

MetaKeys == {"url", "date", "title", "copyright", "explanation"}

FullDoc == << <<"copyright", "C">>, <<"date", "2024-01-01">>, <<"explanation", "E">>,
              <<"title", "T">>, <<"url", "http://example/img.jpg">> >>

OldDoc == << <<"copyright", "B">>, <<"date", "2023-12-31">>, <<"explanation", "D">>,
             <<"title", "S">>, <<"url", "http://example/old.jpg">> >>

Without(doc, M) == SelectSeq(doc, LAMBDA p : p[1] \notin M)

\* Documents the metadata endpoint may answer with.
MetaDocs == {Without(FullDoc, M) : M \in {S \in SUBSET MetaKeys : Cardinality(S) <= MaxMissing}}

\* Bodies of a 2xx metadata response: compact JSON text, or text that is not JSON.
MetaBodies == {JsonText(0, d) : d \in MetaDocs} \cup {Garbage}

ByteVals == {216, 255}
RECURSIVE SeqsUpTo(_, _)
SeqsUpTo(S, n) == IF n = 0 THEN {<<>>}
                  ELSE LET T == SeqsUpTo(S, n - 1)
                       IN  T \cup {Append(t, x) : t \in {u \in T : Len(u) = n - 1}, x \in S}

ImageBodies == {Bytes(b) : b \in SeqsUpTo(ByteVals, MaxImageLen)}
OldImage == Bytes(<<1, 2>>)

\* Ways requests.get / raise_for_status fail, all RequestException subclasses.
RequestFailures == {"ConnectionError", "Timeout", "HTTPError"}

Running == 0 - 1

VARIABLES
    pc,                      \* position in the script
    exc,                     \* exception in flight
    configFile,              \* content of ./config/config.json
    apodJson,                \* content of data/apod.json
    apodJpg,                 \* content of data/apod.jpg
    config,                  \* dict returned by get_config
    api_key, default_wallpaper_path, style,
    response,                \* the local `response` of get_image
    metadata,                \* the local `metadata` of get_image
    url,                     \* the local `url` of get_image
    apod_image_path,         \* path returned by get_image
    io,                      \* HTTP requests and file writes of the run, in order
    setterCalls,             \* calls of set_wallpaper, with the registry writes of each
    wallpaper,               \* path last passed to SystemParametersInfoW
    registry,                \* HKCU\Control Panel\Desktop values
    stdout, stderr,
    exitCode,
    boot                     \* files, wallpaper and registry as they were at start

vars == <<pc, exc, configFile, apodJson, apodJpg, config, api_key, default_wallpaper_path,
          style, response, metadata, url, apod_image_path, io, setterCalls, wallpaper,
          registry, stdout, stderr, exitCode, boot>>

filesys == <<configFile, apodJson, apodJpg>>
locals == <<config, api_key, default_wallpaper_path, style, response, metadata, url,
            apod_image_path>>
desktop == <<setterCalls, wallpaper, registry>>

NoResponse == [status |-> "none", body |-> Absent]

Init ==
    /\ pc = "L168"
    /\ exc = NoExc
    /\ configFile \in ConfigFiles
    /\ \E prior \in {<<Absent, Absent>>, <<JsonDump(OldDoc), Absent>>,
                     <<JsonDump(OldDoc), OldImage>>} :
          /\ apodJson = prior[1]
          /\ apodJpg = prior[2]
    /\ config = <<>>
    /\ api_key = ""
    /\ default_wallpaper_path = ""
    /\ style = ""
    /\ response = NoResponse
    /\ metadata = <<>>
    /\ url = ""
    /\ apod_image_path = ""
    /\ io = <<>>
    /\ setterCalls = <<>>
    /\ wallpaper = AbsPath("C:/Windows/Web/img0.jpg")
    /\ registry = [WallpaperStyle |-> "10", TileWallpaper |-> "0"]
    /\ stdout = <<>>
    /\ stderr = <<>>
    /\ exitCode = Running
    /\ boot = [configFile |-> configFile, apodJson |-> apodJson, apodJpg |-> apodJpg,
               wallpaper |-> wallpaper, registry |-> registry]

\* ------------------------------------------------------ exception routing
\* TryBlockLines with the report call left outside the try.
TryBlockLines_m == 179..181
\* Lines of the script whose exceptions reach the `except Exception:` of line 183.
TryBlockLines == 179..182

\* Lines guarded by the `except ... as e:` of line 169.
ConfigTryLines == {168}

\* Where control goes when an exception leaves the statement at `line`.
Unwind(line) == IF line \in TryBlockLines THEN "L183"
                ELSE IF line \in ConfigTryLines THEN "L169"
                ELSE "uncaught"

\* Catches as a bare `except:` would behave.
Catches_m(cls) == TRUE

\* `except Exception:` of line 183.
Catches(cls) == cls \in ExceptionSubclasses

\* `except FileNotFoundError or JSONDecodeError as e:` of line 169.
ConfigCatches(cls) == cls = PyOr("FileNotFoundError", "JSONDecodeError")

\* ------------------------------------------------------------- messages
ConfigCreatedMsg == <<"Config file has been created in ", Cwd, config_path>>
ConfigProblemMsg(cls) == <<"Problem with reading or decoding config file: ", cls>>
RequestProblemMsg(why) == <<"Problem with request to APOD: ", why>>
DecodeProblemMsg == <<"Problem with decoding response: ", "JSONDecodeError">>
DownloadProblemMsg(why) == <<"Problem with request to download wallpaper: ", why>>
StyleMsg == <<"Chosen style is incorrect! Please, rewrite your config file and get sure, that you have one of the following styles: fill, fit, stretch, tile, center, span.">>
SuccessMsg == <<"Wallpaper is set successfully!">>
\* FormatHeader with title and copyright exchanged.
FormatHeader_m(date, title, copyright) == <<"[", date, "] ", copyright, " | ", title>>
FormatHeader(date, title, copyright) == <<"[", date, "] ", title, " | ", copyright>>

Get(target, status, body) ==
    [op |-> "GET", target |-> target, status |-> status, body |-> body]
WriteOp(target, body) ==
    [op |-> "WRITE", target |-> target, status |-> "ok", body |-> body]

\* ------------------------------------------------------------ config load
\* create_config without its exit(0): get_config goes on to load the new file.
create_config_m ==
    /\ pc = "L168"
    /\ configFile.kind = "absent"
    /\ configFile' = JsonDump(ConfigTemplate)
    /\ io' = Append(io, WriteOp(config_path, JsonDump(ConfigTemplate)))
    /\ stdout' = Append(stdout, ConfigCreatedMsg)
    /\ UNCHANGED <<pc, exc, apodJson, apodJpg, locals, desktop, stderr, exitCode, boot>>

\* get_config, file missing: create_config writes the template, prints the hint, exit(0).
create_config ==
    /\ pc = "L168"
    /\ configFile.kind = "absent"
    /\ configFile' = JsonDump(ConfigTemplate)
    /\ io' = Append(io, WriteOp(config_path, JsonDump(ConfigTemplate)))
    /\ stdout' = Append(stdout, ConfigCreatedMsg)
    /\ exc' = SystemExit(0)
    /\ pc' = Unwind(168)
    /\ UNCHANGED <<apodJson, apodJpg, locals, desktop, stderr, exitCode, boot>>

\* get_config, file present: json.load returns the dict or raises JSONDecodeError.
get_config ==
    /\ pc = "L168"
    /\ configFile.kind # "absent"
    /\ IF Decodes(configFile)
       THEN /\ config' = JsonLoad(configFile)
            /\ pc' = "L173"
            /\ exc' = exc
       ELSE /\ config' = config
            /\ exc' = Raise("JSONDecodeError")
            /\ pc' = Unwind(168)
    /\ UNCHANGED <<filesys, api_key, default_wallpaper_path, style, response, metadata, url,
                   apod_image_path, io, desktop, stdout, stderr, exitCode, boot>>

\* Line 169-171: the handler of the configuration try.
ConfigExcept ==
    /\ pc = "L169"
    /\ IF ConfigCatches(exc.cls)
       THEN /\ stdout' = Append(stdout, ConfigProblemMsg(exc.cls))
            /\ exc' = SystemExit(1)
       ELSE /\ stdout' = stdout
            /\ exc' = exc
    /\ pc' = "uncaught"
    /\ UNCHANGED <<filesys, locals, io, desktop, stderr, exitCode, boot>>

\* Lines 173-175: the three config lookups; a missing key raises KeyError.
ReadConfigKeys ==
    /\ pc = "L173"
    /\ IF {"api_key", "default_wallpaper", "style"} \subseteq Keys(config)
       THEN /\ api_key' = Lookup(config, "api_key")
            /\ default_wallpaper_path' = Lookup(config, "default_wallpaper")
            /\ style' = Lookup(config, "style")
            /\ pc' = "L77"
            /\ exc' = exc
       ELSE /\ api_key' = IF HasKey(config, "api_key") THEN Lookup(config, "api_key")
                          ELSE api_key
            /\ default_wallpaper_path' =
                  IF {"api_key", "default_wallpaper"} \subseteq Keys(config)
                  THEN Lookup(config, "default_wallpaper") ELSE default_wallpaper_path
            /\ style' = style
            /\ exc' = Raise("KeyError")
            /\ pc' = Unwind(173)
    /\ UNCHANGED <<filesys, config, response, metadata, url, apod_image_path, io, desktop,
                   stdout, stderr, exitCode, boot>>

\* ---------------------------------------------------------------- get_image
\* Lines 77-81: GET of the metadata endpoint, raise_for_status, re-raise on failure.
HttpGetMetadata ==
    /\ pc = "L77"
    /\ \/ \E body \in MetaBodies :
             /\ response' = [status |-> "ok", body |-> body]
             /\ io' = Append(io, Get(APOD_URL, "ok", body))
             /\ stdout' = stdout
             /\ exc' = exc
             /\ pc' = "L84"
       \/ \E why \in RequestFailures :
             /\ response' = response
             /\ io' = Append(io, Get(APOD_URL, why, Absent))
             /\ stdout' = Append(stdout, RequestProblemMsg(why))
             /\ exc' = Raise("RequestException")
             /\ pc' = Unwind(179)
    /\ UNCHANGED <<filesys, config, api_key, default_wallpaper_path, style, metadata, url,
                   apod_image_path, desktop, stderr, exitCode, boot>>

\* Lines 83-87: response.json().
DecodeResponse ==
    /\ pc = "L84"
    /\ IF Decodes(response.body)
       THEN /\ metadata' = JsonLoad(response.body)
            /\ stdout' = stdout
            /\ exc' = exc
            /\ pc' = "L89"
       ELSE /\ metadata' = metadata
            /\ stdout' = Append(stdout, DecodeProblemMsg)
            /\ exc' = Raise("JSONDecodeError")
            /\ pc' = Unwind(179)
    /\ UNCHANGED <<filesys, config, api_key, default_wallpaper_path, style, response, url,
                   apod_image_path, io, desktop, stderr, exitCode, boot>>

\* ReadUrl as metadata.get('url', '') would behave: no KeyError.
ReadUrl_m ==
    /\ pc = "L89"
    /\ url' = IF HasKey(metadata, "url") THEN Lookup(metadata, "url") ELSE ""
    /\ pc' = "L91"
    /\ UNCHANGED <<filesys, config, api_key, default_wallpaper_path, style, response, metadata,
                   apod_image_path, exc, io, desktop, stdout, stderr, exitCode, boot>>

\* Line 89: url = metadata['url'].
ReadUrl ==
    /\ pc = "L89"
    /\ IF HasKey(metadata, "url")
       THEN /\ url' = Lookup(metadata, "url")
            /\ exc' = exc
            /\ pc' = "L91"
       ELSE /\ url' = url
            /\ exc' = Raise("KeyError")
            /\ pc' = Unwind(179)
    /\ UNCHANGED <<filesys, config, api_key, default_wallpaper_path, style, response, metadata,
                   apod_image_path, io, desktop, stdout, stderr, exitCode, boot>>

\* WriteMetadata with the dump left out.
WriteMetadata_m ==
    /\ pc = "L91"
    /\ pc' = "L95"
    /\ UNCHANGED <<filesys, locals, exc, io, desktop, stdout, stderr, exitCode, boot>>

\* Lines 90-92: json.dump of the metadata into data/apod.json.
WriteMetadata ==
    /\ pc = "L91"
    /\ apodJson' = JsonDump(metadata)
    /\ io' = Append(io, WriteOp(apod_json_path, JsonDump(metadata)))
    /\ pc' = "L95"
    /\ UNCHANGED <<configFile, apodJpg, locals, exc, desktop, stdout, stderr, exitCode, boot>>

\* Lines 94-99: GET of the image url, raise_for_status, re-raise on failure.
HttpGetImage ==
    /\ pc = "L95"
    /\ \/ \E body \in ImageBodies :
             /\ response' = [status |-> "ok", body |-> body]
             /\ io' = Append(io, Get(url, "ok", body))
             /\ stdout' = stdout
             /\ exc' = exc
             /\ pc' = "L102"
       \/ \E why \in RequestFailures :
             /\ response' = response
             /\ io' = Append(io, Get(url, why, Absent))
             /\ stdout' = Append(stdout, DownloadProblemMsg(why))
             /\ exc' = Raise("RequestException")
             /\ pc' = Unwind(179)
    /\ UNCHANGED <<filesys, config, api_key, default_wallpaper_path, style, metadata, url,
                   apod_image_path, desktop, stderr, exitCode, boot>>

\* Lines 101-105: response.content into data/apod.jpg, return (path, metadata).
WriteImage ==
    /\ pc = "L102"
    /\ apodJpg' = response.body
    /\ io' = Append(io, WriteOp(apod_image_path_const, response.body))
    /\ apod_image_path' = apod_image_path_const
    /\ pc' = "L180"
    /\ UNCHANGED <<configFile, apodJson, config, api_key, default_wallpaper_path, style,
                   response, metadata, url, exc, desktop, stdout, stderr, exitCode, boot>>

\* ------------------------------------------------------------ set_wallpaper
\* StyleWrites with the values of the span branch taken from the stretch branch.
StyleWrites_m(st) ==
    IF st = "fill" THEN << <<"WallpaperStyle", "10">>, <<"TileWallpaper", "0">> >>
    ELSE IF st = "fit" THEN << <<"WallpaperStyle", "6">>, <<"TileWallpaper", "0">> >>
    ELSE IF st = "stretch" THEN << <<"WallpaperStyle", "2">>, <<"TileWallpaper", "0">> >>
    ELSE IF st = "tile" THEN << <<"WallpaperStyle", "0">>, <<"TileWallpaper", "1">> >>
    ELSE IF st = "center" THEN << <<"WallpaperStyle", "0">>, <<"TileWallpaper", "0">> >>
    ELSE IF st = "span" THEN << <<"WallpaperStyle", "2">>, <<"TileWallpaper", "0">> >>
    ELSE <<>>

\* Lines 121-142: the registry values the if/elif chain writes for a style;
\* the empty sequence is the else branch.
StyleWrites(st) ==
    IF st = "fill" THEN << <<"WallpaperStyle", "10">>, <<"TileWallpaper", "0">> >>
    ELSE IF st = "fit" THEN << <<"WallpaperStyle", "6">>, <<"TileWallpaper", "0">> >>
    ELSE IF st = "stretch" THEN << <<"WallpaperStyle", "2">>, <<"TileWallpaper", "0">> >>
    ELSE IF st = "tile" THEN << <<"WallpaperStyle", "0">>, <<"TileWallpaper", "1">> >>
    ELSE IF st = "center" THEN << <<"WallpaperStyle", "0">>, <<"TileWallpaper", "0">> >>
    ELSE IF st = "span" THEN << <<"WallpaperStyle", "22">>, <<"TileWallpaper", "0">> >>
    ELSE <<>>

\* RegSetValueEx applied in order to the Desktop key.
RECURSIVE ApplyWrites(_, _)
ApplyWrites(reg, writes) ==
    IF writes = <<>> THEN reg
    ELSE ApplyWrites([reg EXCEPT ![writes[1][1]] = writes[1][2]], Tail(writes))

\* Lines 108-142: one call of set_wallpaper made from `line`, continuing at `next`.
set_wallpaper(line, path, st, next) ==
    LET writes == StyleWrites(st) IN
    /\ wallpaper' = AbsPath(path)
    /\ registry' = ApplyWrites(registry, writes)
    /\ setterCalls' = Append(setterCalls,
                             [line |-> line, path |-> path, style |-> st, writes |-> writes])
    /\ IF writes # <<>>
       THEN /\ stdout' = stdout
            /\ exc' = exc
            /\ pc' = next
       ELSE /\ stdout' = Append(stdout, StyleMsg)
            /\ exc' = SystemExit(0)
            /\ pc' = Unwind(line)

\* ------------------------------------------------------------------- main
\* Line 180.
SetWallpaperLive ==
    /\ pc = "L180"
    /\ set_wallpaper(180, apod_image_path, style, "L181")
    /\ UNCHANGED <<filesys, locals, io, stderr, exitCode, boot>>

\* Line 181.
PrintSuccess ==
    /\ pc = "L181"
    /\ stdout' = Append(stdout, SuccessMsg)
    /\ pc' = "L182"
    /\ UNCHANGED <<filesys, locals, exc, io, desktop, stderr, exitCode, boot>>

\* Lines 150-161, called from line 182: the four lookups, then the two prints.
print_wallpaper_info ==
    /\ pc = "L182"
    /\ IF {"date", "title", "copyright", "explanation"} \subseteq Keys(metadata)
       THEN /\ stdout' = stdout \o
                  << FormatHeader(Lookup(metadata, "date"), Lookup(metadata, "title"),
                                  Lookup(metadata, "copyright")),
                     <<Lookup(metadata, "explanation")>> >>
            /\ exc' = exc
            /\ pc' = "end"
       ELSE /\ stdout' = stdout
            /\ exc' = Raise("KeyError")
            /\ pc' = Unwind(182)
    /\ UNCHANGED <<filesys, locals, io, desktop, stderr, exitCode, boot>>

\* Line 183: `except Exception:` either takes the exception or lets it go on.
ExceptException ==
    /\ pc = "L183"
    /\ IF Catches(exc.cls)
       THEN /\ exc' = NoExc
            /\ pc' = "L184"
       ELSE /\ exc' = exc
            /\ pc' = "uncaught"
    /\ UNCHANGED <<filesys, locals, io, desktop, stdout, stderr, exitCode, boot>>

\* SetWallpaperFallback passing the live image path instead of the default one.
SetWallpaperFallback_m ==
    /\ pc = "L184"
    /\ set_wallpaper(184, apod_image_path_const, style, "L185")
    /\ UNCHANGED <<filesys, locals, io, stderr, exitCode, boot>>

\* Line 184.
SetWallpaperFallback ==
    /\ pc = "L184"
    /\ set_wallpaper(184, default_wallpaper_path, style, "L185")
    /\ UNCHANGED <<filesys, locals, io, stderr, exitCode, boot>>

\* Line 185: the f-string reads the global `e`, which no statement has bound.
PrintProblem ==
    /\ pc = "L185"
    /\ exc' = Raise("NameError")
    /\ pc' = Unwind(185)
    /\ UNCHANGED <<filesys, locals, io, desktop, stdout, stderr, exitCode, boot>>

\* The interpreter ends on an exception no handler took: SystemExit gives its
\* code, anything else a traceback on stderr and status 1.
Uncaught ==
    /\ pc = "uncaught"
    /\ IF exc.cls = "SystemExit"
       THEN /\ exitCode' = exc.code
            /\ stderr' = stderr
       ELSE /\ exitCode' = 1
            /\ stderr' = Append(stderr, exc.cls)
    /\ pc' = "exited"
    /\ UNCHANGED <<filesys, locals, exc, io, desktop, stdout, boot>>

\* The script runs off its last line.
EndOfScript ==
    /\ pc = "end"
    /\ exitCode' = 0
    /\ pc' = "exited"
    /\ UNCHANGED <<filesys, locals, exc, io, desktop, stdout, stderr, boot>>

Next ==
    \/ create_config
    \/ get_config
    \/ ConfigExcept
    \/ ReadConfigKeys
    \/ HttpGetMetadata
    \/ DecodeResponse
    \/ ReadUrl
    \/ WriteMetadata
    \/ HttpGetImage
    \/ WriteImage
    \/ SetWallpaperLive
    \/ PrintSuccess
    \/ print_wallpaper_info
    \/ ExceptException
    \/ SetWallpaperFallback
    \/ PrintProblem
    \/ Uncaught
    \/ EndOfScript

Spec == Init /\ [][Next]_vars

\* ============================================================== properties
Exited == pc = "exited"

\* The HTTP requests of the run, in order.
GETs == SelectSeq(io, LAMBDA r : r.op = "GET")

\* The requests and writes of get_image, in order.
FetchIO == SelectSeq(io, LAMBDA r : r.target # config_path)

WritesTo(target) == SelectSeq(io, LAMBDA r : r.op = "WRITE" /\ r.target = target)

\* The configuration document on disk when the run started.
Configured == boot.configFile.doc

ValidConfig ==
    /\ boot.configFile.kind = "json"
    /\ Keys(Configured) = {"api_key", "default_wallpaper", "style"}

MetadataOK ==
    /\ Len(GETs) >= 1
    /\ GETs[1].status = "ok"
    /\ GETs[1].body.kind = "json"

ReceivedDoc == GETs[1].body.doc

CallsFrom(line) == SelectSeq(setterCalls, LAMBDA c : c.line = line)

FallbackCall ==
    [line |-> 184, path |-> Lookup(Configured, "default_wallpaper"),
     style |-> Lookup(Configured, "style"),
     writes |-> StyleWrites(Lookup(Configured, "style"))]

ReportKeys == {"date", "title", "copyright", "explanation"}

\* C1: with a valid config and a recognized style, a successful metadata GET
\* carrying all five fields and a successful image GET end with the metadata
\* file holding that document, the image file holding the downloaded bytes,
\* the wallpaper set to the downloaded image only, the header and the
\* explanation printed, and exit code 0.
C1_HappyPath ==
    ( /\ Exited
      /\ ValidConfig
      /\ Lookup(Configured, "style") \in Styles
      /\ MetadataOK
      /\ Keys(ReceivedDoc) = MetaKeys
      /\ Len(GETs) = 2
      /\ GETs[2].status = "ok" )
    => /\ apodJson.kind = "json"
       /\ apodJson.doc = ReceivedDoc
       /\ apodJpg = GETs[2].body
       /\ Len(setterCalls) = 1
       /\ setterCalls[1].path = "data/apod.jpg"
       /\ setterCalls[1].style = Lookup(Configured, "style")
       /\ wallpaper = [base |-> Cwd, path |-> "data/apod.jpg"]
       /\ stdout = << <<"Wallpaper is set successfully!">>,
                      <<"[", Lookup(ReceivedDoc, "date"), "] ", Lookup(ReceivedDoc, "title"),
                        " | ", Lookup(ReceivedDoc, "copyright")>>,
                      <<Lookup(ReceivedDoc, "explanation")>> >>
       /\ stderr = <<>>
       /\ exitCode = 0

C1_Witness ==
    /\ Exited
    /\ exitCode = 0
    /\ Len(GETs) = 2
    /\ apodJpg = Bytes(<<255>>)
    /\ apodJson = JsonDump(FullDoc)
    /\ boot.apodJpg = OldImage
    /\ Len(stdout) = 3

\* C2: when the metadata request fails, no image request is issued, neither
\* data file is written, and the setter is called with the configured default
\* wallpaper and style.
C2_MetadataFailure ==
    ( /\ Len(GETs) >= 1
      /\ GETs[1].status \in RequestFailures )
    => /\ Len(GETs) = 1
       /\ WritesTo(apod_json_path) = <<>>
       /\ WritesTo(apod_image_path_const) = <<>>
       /\ apodJson = boot.apodJson
       /\ apodJpg = boot.apodJpg
       /\ Exited => setterCalls = <<FallbackCall>>

C2_Witness ==
    /\ Exited
    /\ Len(GETs) = 1
    /\ GETs[1].status = "Timeout"
    /\ Len(setterCalls) = 1
    /\ setterCalls[1].path = "C:/Users/me/default.jpg"
    /\ boot.apodJson = JsonDump(OldDoc)

\* C3: when the image request fails after the metadata file was written, the
\* setter is still called with the configured default wallpaper and style, the
\* metadata file keeps the new document and the image file keeps its previous
\* content.
C3_ImageFailure ==
    ( /\ Exited
      /\ Len(GETs) = 2
      /\ GETs[2].status \in RequestFailures )
    => /\ setterCalls = <<FallbackCall>>
       /\ apodJson.kind = "json"
       /\ apodJson.doc = ReceivedDoc
       /\ Len(WritesTo(apod_json_path)) = 1
       /\ WritesTo(apod_image_path_const) = <<>>
       /\ apodJpg = boot.apodJpg

C3_Witness ==
    /\ Exited
    /\ Len(GETs) = 2
    /\ GETs[2].status = "HTTPError"
    /\ boot.apodJson = JsonDump(OldDoc)
    /\ apodJson # boot.apodJson
    /\ apodJpg = OldImage
    /\ Len(setterCalls) = 1

\* C4: after an error in the live path the handler applies the fallback once
\* and, with a recognized style, the process completes normally with exit
\* code 0 and no further uncaught error.
C4_FallbackCompletes ==
    ( /\ Exited
      /\ CallsFrom(184) # <<>>
      /\ style \in Styles )
    => /\ Len(CallsFrom(184)) = 1
       /\ Len(GETs) <= 2
       /\ stderr = <<>>
       /\ exitCode = 0

\* C5: for each recognized style a call of the setter writes exactly the pair
\* of the table, WallpaperStyle then TileWallpaper, and nothing else.
SpecTable ==
    [fill |-> <<10, 0>>, fit |-> <<6, 0>>, stretch |-> <<2, 0>>,
     tile |-> <<0, 1>>, center |-> <<0, 0>>, span |-> <<22, 0>>]

C5_StyleTable ==
    /\ \A i \in 1..Len(setterCalls) :
          setterCalls[i].style \in Styles =>
             setterCalls[i].writes =
                << <<"WallpaperStyle", ToString(SpecTable[setterCalls[i].style][1])>>,
                   <<"TileWallpaper", ToString(SpecTable[setterCalls[i].style][2])>> >>
    /\ ( /\ setterCalls # <<>>
         /\ setterCalls[Len(setterCalls)].style \in Styles )
       => registry =
             [WallpaperStyle |-> ToString(SpecTable[setterCalls[Len(setterCalls)].style][1]),
              TileWallpaper |-> ToString(SpecTable[setterCalls[Len(setterCalls)].style][2])]

C5_Witness ==
    /\ Len(setterCalls) = 2
    /\ setterCalls[2].style = "tile"
    /\ registry = [WallpaperStyle |-> "0", TileWallpaper |-> "1"]

\* C6: with an unrecognized style, whichever call site reaches the setter, no
\* display-configuration value is written, the corrective message is printed,
\* the process ends with exit code 0, and the exit raised in the live path
\* does not trigger the fallback.
C6_BadStyle ==
    ( /\ Exited
      /\ setterCalls # <<>>
      /\ setterCalls[1].style \notin Styles )
    => /\ Len(setterCalls) = 1
       /\ setterCalls[1].writes = <<>>
       /\ registry = boot.registry
       /\ stdout # <<>>
       /\ stdout[Len(stdout)][1] = "Chosen style is incorrect! Please, rewrite your config file and get sure, that you have one of the following styles: fill, fit, stretch, tile, center, span."
       /\ stderr = <<>>
       /\ exitCode = 0

C6_Witness ==
    /\ Exited
    /\ Len(setterCalls) = 1
    /\ setterCalls[1].line = 180
    /\ setterCalls[1].style = "mosaic"
    /\ exitCode = 0

\* C7: when the configuration file does not exist at startup the loader
\* creates it with the three keys set to the empty string and the process
\* ends with exit code 0 with no request, no data file written and no
\* wallpaper or display-configuration change.
C7_FirstRun ==
    boot.configFile.kind = "absent"
    => /\ GETs = <<>>
       /\ FetchIO = <<>>
       /\ apodJson = boot.apodJson
       /\ apodJpg = boot.apodJpg
       /\ setterCalls = <<>>
       /\ wallpaper = boot.wallpaper
       /\ registry = boot.registry
       /\ Exited =>
             /\ configFile.kind = "json"
             /\ configFile.doc =
                   << <<"api_key", "">>, <<"default_wallpaper", "">>, <<"style", "">> >>
             /\ exitCode = 0

C7_Witness ==
    /\ Exited
    /\ boot.configFile.kind = "absent"
    /\ configFile.kind = "json"
    /\ Len(io) = 1

\* C8: when the configuration file is malformed, the configuration-problem
\* message is printed, the process ends with exit code 1, and no request and
\* no wallpaper or display-configuration change is made.
C8_MalformedConfig ==
    ( /\ Exited
      /\ boot.configFile.kind = "garbage" )
    => /\ \E i \in 1..Len(stdout) :
             stdout[i][1] = "Problem with reading or decoding config file: "
       /\ exitCode = 1
       /\ GETs = <<>>
       /\ setterCalls = <<>>
       /\ wallpaper = boot.wallpaper
       /\ registry = boot.registry

LiveApplied == CallsFrom(180) # <<>> /\ setterCalls[1].writes # <<>>

\* C9: after a successful fetch and apply, a metadata document lacking a
\* report field makes the reporter's failure leave the program uncaught: no
\* fallback call, and the live image stays the wallpaper.
C9_ReportUncaught ==
    ( /\ Exited
      /\ LiveApplied
      /\ ~ (ReportKeys \subseteq Keys(metadata)) )
    => /\ CallsFrom(184) = <<>>
       /\ wallpaper = AbsPath(apod_image_path_const)
       /\ stderr = <<"KeyError">>

FetchFailed ==
    \/ \E i \in 1..Len(GETs) : GETs[i].status \in RequestFailures
    \/ Len(GETs) >= 1 /\ GETs[1].status = "ok" /\ GETs[1].body.kind # "json"
    \/ MetadataOK /\ "url" \notin Keys(ReceivedDoc)

ReportFailed == LiveApplied /\ ~ (ReportKeys \subseteq Keys(metadata))

\* C9 amended: the fallback is taken exactly for an exception raised during
\* fetch, apply or report; after a successful fetch and apply, a document
\* lacking a report field makes the handler apply the default wallpaper, which
\* replaces the live image just set.
C9_ReportFallsBack ==
    /\ ( Exited /\ Len(GETs) >= 1 )
       => ( CallsFrom(184) # <<>> <=> (FetchFailed \/ ReportFailed) )
    /\ ( Exited /\ ReportFailed )
       => /\ Len(setterCalls) = 2
          /\ setterCalls[1].line = 180
          /\ setterCalls[2] = FallbackCall
          /\ wallpaper = AbsPath(Lookup(Configured, "default_wallpaper"))

C9_Witness ==
    /\ Exited
    /\ Len(setterCalls) = 2
    /\ "copyright" \notin Keys(metadata)
    /\ wallpaper = AbsPath("C:/Users/me/default.jpg")

\* C10: whenever the metadata response was received and parsed, the metadata
\* file holds that document, whether or not the url lookup or the image
\* download fails afterwards.
C10_PersistedBeforeUrl ==
    ( Exited /\ MetadataOK )
    => /\ apodJson.kind = "json"
       /\ apodJson.doc = ReceivedDoc

\* C10 amended: the fetcher's steps are metadata GET, parse, url lookup,
\* metadata file write, image GET, image file write, each only after every
\* earlier one succeeded; the metadata file is written before the image GET
\* when the document has a url, and is not written when it has none.
C10_FetchOrder ==
    /\ Len(FetchIO) <= 4
    /\ Len(FetchIO) >= 1 =>
          /\ FetchIO[1].op = "GET"
          /\ FetchIO[1].target = "https://api.nasa.gov/planetary/apod"
    /\ Len(FetchIO) >= 2 =>
          /\ MetadataOK
          /\ "url" \in Keys(ReceivedDoc)
          /\ FetchIO[2].op = "WRITE"
          /\ FetchIO[2].target = "data/apod.json"
          /\ FetchIO[2].body.kind = "json"
          /\ FetchIO[2].body.doc = ReceivedDoc
          /\ apodJson = FetchIO[2].body
    /\ Len(FetchIO) >= 3 =>
          /\ FetchIO[3].op = "GET"
          /\ FetchIO[3].target = Lookup(ReceivedDoc, "url")
    /\ Len(FetchIO) = 4 =>
          /\ FetchIO[3].status = "ok"
          /\ FetchIO[4].op = "WRITE"
          /\ FetchIO[4].target = "data/apod.jpg"
          /\ FetchIO[4].body = FetchIO[3].body
          /\ apodJpg = FetchIO[3].body
    /\ ( Exited /\ MetadataOK /\ "url" \in Keys(ReceivedDoc) ) => Len(FetchIO) >= 3
    /\ ( Exited /\ MetadataOK /\ "url" \notin Keys(ReceivedDoc) )
       => /\ Len(FetchIO) = 1
          /\ apodJson = boot.apodJson

C10_Witness ==
    /\ Exited
    /\ MetadataOK
    /\ "url" \notin Keys(ReceivedDoc)
    /\ boot.apodJson = JsonDump(OldDoc)
    /\ apodJson = JsonDump(OldDoc)

====
